---- MODULE Spec2Model ----
(***************************************************************************)
(* HealthyHabits (healthyhabits_app.py): a profile table in SQLite, a      *)
(* rule-based recommendation engine and the Streamlit pages around them.   *)
(*                                                                         *)
(* Text representation.  A Python str is modelled as a sequence of pieces. *)
(* Names and condition strings are sequences of one-character pieces, so   *)
(* that ",".join / split(",") / strip() work on characters.  The long      *)
(* recommendation sentences are single pieces (they are only ever          *)
(* appended, joined and compared as wholes), and so is the join delimiter  *)
(* of the text blocks.                                                     *)
(***************************************************************************)
EXTENDS Integers, Sequences, FiniteSets, TLC

VARIABLES
    users,            \* rows of table users (the SQLite file)
    sqlite_sequence,  \* AUTOINCREMENT counter of table users
    clock,            \* what datetime.now() returns next
    translator,       \* module-level translator: "Translator" or "None"
    op,               \* which handler the last script run executed
    name,             \* script variable name (Create Profile)
    conditions,       \* conditions handed to generate_recommendations
    goal,             \* goal handed to generate_recommendations
    recs,             \* script variable recs (result of the engine)
    df,               \* script variable df (result of fetch_profiles)
    selected_id,      \* script variable selected_id (View Profiles)
    language,         \* script variable language (the radio)
    failed,           \* categories whose translator.translate call raised
    shown,            \* what the run wrote to the page
    exception,        \* exception the last store call raised ("" if none)
    created           \* history: the profiles saved so far, in creation order

vars == <<users, sqlite_sequence, clock, translator, op, name, conditions,
          goal, recs, df, selected_id, language, failed, shown, exception,
          created>>

----------------------------------------------------------------------------
(* Bounds *)

MaxProfiles == 2   \* at most this many profiles are saved
MaxLen == 2        \* longest condition list handed to the engine directly

----------------------------------------------------------------------------
(* Generic helpers *)

Range(s) == {s[i] : i \in 1..Len(s)}

Count(s, x) == Cardinality({i \in 1..Len(s) : s[i] = x})

SeqsUpTo(S, n) == UNION {[1..k -> S] : k \in 0..n}

----------------------------------------------------------------------------
(* str methods *)

Whitespace == {" ", "\t", "\n", "\r"}

RECURSIVE LStrip(_)
LStrip(s) ==
    IF s # <<>> /\ Head(s) \in Whitespace THEN LStrip(Tail(s)) ELSE s

RECURSIVE RStrip(_)
RStrip(s) ==
    IF s # <<>> /\ s[Len(s)] \in Whitespace
    THEN RStrip(SubSeq(s, 1, Len(s) - 1)) ELSE s

\* str.strip()
Strip(s) == RStrip(LStrip(s))

\* sep.join(list)
RECURSIVE Join(_, _)
Join(sep, list) ==
    IF list = <<>> THEN <<>>
    ELSE IF Len(list) = 1 THEN list[1]
    ELSE list[1] \o sep \o Join(sep, Tail(list))

\* text.split(c) for a one-character separator c: always at least one field.
RECURSIVE Split(_, _)
Split(text, c) ==
    IF \A i \in 1..Len(text) : text[i] # c THEN <<text>>
    ELSE LET k == CHOOSE i \in 1..Len(text) :
                      text[i] = c /\ \A j \in 1..(i - 1) : text[j] # c
         IN  <<SubSeq(text, 1, k - 1)>>
                 \o Split(SubSeq(text, k + 1, Len(text)), c)

----------------------------------------------------------------------------
(* Condition strings *)

Thyroid == <<"T", "h", "y", "r", "o", "i", "d">>
SleepApnea == <<"S", "l", "e", "e", "p", " ", "A", "p", "n", "e", "a">>
HeartRisk == <<"H", "e", "a", "r", "t", " ", "R", "i", "s", "k">>
CardiacHistory ==
    <<"C", "a", "r", "d", "i", "a", "c", " ", "H", "i", "s", "t", "o", "r", "y">>
Obesity == <<"O", "b", "e", "s", "i", "t", "y">>
Diabetes == <<"D", "i", "a", "b", "e", "t", "e", "s">>
NoneOption == <<"N", "o", "n", "e">>
Flu == <<"F", "l", "u">>

\* options of the conditions multiselect
ConditionOptions ==
    {Thyroid, SleepApnea, HeartRisk, Obesity, Diabetes, NoneOption}

\* options of the goal selectbox
GoalOptions == {"Weight Loss", "Better Sleep", "Energy Boost", "Healthy Habits"}

----------------------------------------------------------------------------
(* Recommendation engine *)

DietBase == "Include more whole foods: vegetables, fruits, lean proteins, and whole grains."
ExerciseBase == "Aim for at least 30 minutes of moderate activity daily (walking, yoga, or cycling)."
SleepBase == "Keep consistent sleep schedule. Avoid screens 1 hour before bed."
GeneralBase == "Stay hydrated and avoid excessive sugary drinks."

DietThyroid == "For thyroid issues: include selenium-rich foods (nuts, seeds) and iodine sources in moderation; avoid highly processed foods and excessive soy."
ExerciseThyroid == "Include strength training twice a week to support metabolism."

DietSleepApnea == "For sleep apnea: avoid heavy meals and caffeine close to bedtime; maintain healthy weight."
ExerciseSleepApnea == "Practice breathing exercises and consider positional therapy (sleeping on side)."
SleepSleepApnea == "Consult a clinician for breathing-related sleep disorders; avoid alcohol near bedtime."

DietHeart == "Heart-healthy diet: reduce saturated fats, increase fiber, include omega-3 sources like fish or flaxseed."
ExerciseHeart == "Prefer low-impact cardio like brisk walking; check with a doctor before intense exercise."
GeneralHeart == "Monitor blood pressure and cholesterol regularly."

DietWeightLoss == "Control portion sizes, prefer protein-rich breakfasts, and avoid late-night snacking."
ExerciseWeightLoss == "Incorporate interval walks or brisk walks to increase calorie burn."

SleepBetterSleep == "Create a bedtime routine: warm shower, light stretching, and a calm environment."
DietBetterSleep == "Avoid heavy, spicy dinners and caffeine after late afternoon."

DietEnergyBoost == "Include small, frequent balanced meals; add nuts and fruits for healthy snacks."
ExerciseEnergyBoost == "Short morning walks and light stretching improve daytime alertness."

\* the delimiter "\\n- " of the text blocks: backslash, n, hyphen, space
Bullet == "\\n- "

Categories == {"diet", "exercise", "sleep", "general"}

\* one sentence as a str
Line(sentence) == <<sentence>>

\* "\\n- ".join([""] + lines).strip()
Collate(lines) ==
    Strip(Join(<<Bullet>>, <<<<>>>> \o [i \in 1..Len(lines) |-> Line(lines[i])]))

\* x in conditions
In(x, conds) == \E i \in 1..Len(conds) : conds[i] = x

\* the four lists after the base suggestions
BaseSuggestions ==
    [diet     |-> <<DietBase>>,
     exercise |-> <<ExerciseBase>>,
     sleep    |-> <<SleepBase>>,
     general  |-> <<GeneralBase>>]

\* if "Thyroid" in conditions: ...
ThyroidAdjustments(r, conds) ==
    IF In(Thyroid, conds)
    THEN [r EXCEPT !.diet = Append(@, DietThyroid),
                   !.exercise = Append(@, ExerciseThyroid)]
    ELSE r

\* if "Sleep Apnea" in conditions: ...
SleepApneaAdjustments(r, conds) ==
    IF In(SleepApnea, conds)
    THEN [r EXCEPT !.diet = Append(@, DietSleepApnea),
                   !.exercise = Append(@, ExerciseSleepApnea),
                   !.sleep = Append(@, SleepSleepApnea)]
    ELSE r

\* the three appends of the heart rule
HeartLines(r) ==
    [r EXCEPT !.diet = Append(@, DietHeart),
              !.exercise = Append(@, ExerciseHeart),
              !.general = Append(@, GeneralHeart)]

\* a variant with one rule per heart condition string
HeartAdjustmentsPerString(r, conds) ==
    LET r1 == IF In(HeartRisk, conds) THEN HeartLines(r) ELSE r
    IN  IF In(CardiacHistory, conds) THEN HeartLines(r1) ELSE r1

\* if "Heart Risk" in conditions or "Cardiac History" in conditions: ...
HeartAdjustments(r, conds) ==
    IF In(HeartRisk, conds) \/ In(CardiacHistory, conds)
    THEN HeartLines(r)
    ELSE r

\* if goal == "Weight Loss": ... elif "Better Sleep": ... elif "Energy Boost": ...
GoalTweaks(r, gl) ==
    IF gl = "Weight Loss"
    THEN [r EXCEPT !.diet = Append(@, DietWeightLoss),
                   !.exercise = Append(@, ExerciseWeightLoss)]
    ELSE IF gl = "Better Sleep"
    THEN [r EXCEPT !.sleep = Append(@, SleepBetterSleep),
                   !.diet = Append(@, DietBetterSleep)]
    ELSE IF gl = "Energy Boost"
    THEN [r EXCEPT !.diet = Append(@, DietEnergyBoost),
                   !.exercise = Append(@, ExerciseEnergyBoost)]
    ELSE r

\* the returned dict of the four collated text blocks
CollateAll(r) ==
    [diet     |-> Collate(r.diet),
     exercise |-> Collate(r.exercise),
     sleep    |-> Collate(r.sleep),
     general  |-> Collate(r.general)]

\* a variant that applies the heart rule once per heart condition string
generate_recommendations_PerString(conds, gl) ==
    CollateAll(GoalTweaks(
        HeartAdjustmentsPerString(
            SleepApneaAdjustments(
                ThyroidAdjustments(BaseSuggestions, conds), conds), conds), gl))

\* a variant that walks the condition list and applies each entry's rule
RECURSIVE WalkConditions(_, _)
WalkConditions(r, conds) ==
    IF conds = <<>> THEN r
    ELSE LET one == <<Head(conds)>>
         IN  WalkConditions(
                 HeartAdjustments(
                     SleepApneaAdjustments(
                         ThyroidAdjustments(r, one), one), one),
                 Tail(conds))

generate_recommendations_Walk(conds, gl) ==
    CollateAll(GoalTweaks(WalkConditions(BaseSuggestions, conds), gl))

\* a variant in which "Obesity" also triggers the weight-loss lines
generate_recommendations_Obesity(conds, gl) ==
    LET r == HeartAdjustments(
                 SleepApneaAdjustments(
                     ThyroidAdjustments(BaseSuggestions, conds), conds), conds)
    IN  CollateAll(IF In(Obesity, conds) /\ gl # "Weight Loss"
                   THEN GoalTweaks(GoalTweaks(r, "Weight Loss"), gl)
                   ELSE GoalTweaks(r, gl))

generate_recommendations(conds, gl) ==
    CollateAll(GoalTweaks(
        HeartAdjustments(
            SleepApneaAdjustments(
                ThyroidAdjustments(BaseSuggestions, conds), conds), conds), gl))

\* recs of a run that did not call the engine
NoRecs == [diet |-> <<>>, exercise |-> <<>>, sleep |-> <<>>, general |-> <<>>]

----------------------------------------------------------------------------
(* Translation *)

UnavailableSuffix == " (translation unavailable)"
NotInstalledSuffix == " (Hindi translation not available - please install googletrans)"

\* translator.translate(text, dest=dest).text when the call succeeds: some
\* text of the provider, marked by the destination language
Translated(text, dest) == <<"<", dest, ">">> \o text

\* a variant whose fallback returns the text without the note
translate_text_NoNote(text, dest, raises) ==
    IF translator = "None" THEN text
    ELSE IF raises THEN text
    ELSE Translated(text, dest)

\* translate_text: the definition chosen at import time by the availability
\* of googletrans; raises says whether translator.translate raises
translate_text(text, dest, raises) ==
    IF translator = "None" THEN text \o <<NotInstalledSuffix>>
    ELSE IF raises THEN text \o <<UnavailableSuffix>>
    ELSE Translated(text, dest)

----------------------------------------------------------------------------
(* Database helpers *)

\* a variant that joins with ", "
NewRow_CommaSpace(nm, ag, gd, conds, gl) ==
    [id         |-> sqlite_sequence + 1,
     name       |-> nm,
     age        |-> ag,
     gender     |-> gd,
     conditions |-> Join(<<",", " ">>, conds),
     goal       |-> gl,
     created_at |-> clock]

\* the row INSERT INTO users ... VALUES (...) adds
NewRow(nm, ag, gd, conds, gl) ==
    [id         |-> sqlite_sequence + 1,
     name       |-> nm,
     age        |-> ag,
     gender     |-> gd,
     conditions |-> Join(<<",">>, conds),
     goal       |-> gl,
     created_at |-> clock]

\* a variant that refuses an empty name
save_profile_Validating(nm, ag, gd, conds, gl) ==
    IF nm = <<>>
    THEN /\ exception' = "ValidationError"
         /\ UNCHANGED <<users, sqlite_sequence, clock>>
    ELSE /\ users' = users \cup {NewRow(nm, ag, gd, conds, gl)}
         /\ sqlite_sequence' = sqlite_sequence + 1
         /\ clock' = clock + 1
         /\ exception' = ""

\* save_profile: one INSERT, committed; no check of its arguments.
\* datetime.now() is modelled by a clock that advances with every insert.
save_profile(nm, ag, gd, conds, gl) ==
    /\ users' = users \cup {NewRow(nm, ag, gd, conds, gl)}
    /\ sqlite_sequence' = sqlite_sequence + 1
    /\ clock' = clock + 1
    /\ exception' = ""

RECURSIVE OrderById(_, _)
OrderById(rows, desc) ==
    IF rows = {} THEN <<>>
    ELSE LET r == CHOOSE x \in rows :
                      \A y \in rows : IF desc THEN y.id <= x.id ELSE x.id <= y.id
         IN  <<r>> \o OrderById(rows \ {r}, desc)

\* a variant with ORDER BY id ASC
fetch_profiles_Asc == OrderById(users, FALSE)

\* SELECT * FROM users ORDER BY id DESC
fetch_profiles == OrderById(users, TRUE)

----------------------------------------------------------------------------
(* Pages *)

\* the two radio options; "Hindi" stands for the Devanagari label
Languages == {"English", "Hindi"}

\* what a run shows when it shows nothing yet
Blank ==
    [error |-> <<>>, success |-> <<>>, info |-> <<>>, table |-> <<>>,
     diet |-> <<>>, exercise |-> <<>>, sleep |-> <<>>, general |-> <<>>]

NameError == <<"Please enter a name.">>
NotFoundError == <<"Profile ID not found. Choose a valid ID from the table above.">>
NoProfilesInfo == <<"No profiles created yet.">>
SavedMessage(nm) == <<"Profile saved for ">> \o nm \o <<".">>

\* the four st.write calls of the language branch; lang is the value the
\* radio returned in this run, fl the translate calls that raised
Display(page, r, lang, fl) ==
    [page EXCEPT
        !.diet     = IF lang = "English" THEN r.diet
                     ELSE translate_text(r.diet, "hi", "diet" \in fl),
        !.exercise = IF lang = "English" THEN r.exercise
                     ELSE translate_text(r.exercise, "hi", "exercise" \in fl),
        !.sleep    = IF lang = "English" THEN r.sleep
                     ELSE translate_text(r.sleep, "hi", "sleep" \in fl),
        !.general  = IF lang = "English" THEN r.general
                     ELSE translate_text(r.general, "hi", "general" \in fl)]

\* which translate calls can raise: none when English is shown or when
\* googletrans is absent (translator.translate is then never called)
FailureSets(lang) ==
    IF lang = "English" \/ translator = "None" THEN {{}}
    ELSE {{}, {"diet"}, {"sleep", "general"}, Categories}

\* a variant that compares the name without strip()
NameIsBlank_NoStrip(nm) == nm = <<>>

\* name.strip() == ""
NameIsBlank(nm) == Strip(nm) = <<>>

\* values typed or picked in the Create Profile form
FormNames == {<<>>, <<" ", " ">>, <<" ", "A", "n", "n", " ">>}
FormAges == {30}
FormGenders == {"Female"}
FormSelections ==
    {<<>>, <<Thyroid>>, <<Thyroid, SleepApnea>>, <<SleepApnea, Thyroid>>,
     <<HeartRisk, Obesity, Diabetes, NoneOption>>}
FormGoals == {"Better Sleep", "Healthy Habits"}

\* every selection the conditions multiselect can return: the chosen
\* options, each once, in the order they were chosen
AllSelections ==
    {sel \in SeqsUpTo(ConditionOptions, Cardinality(ConditionOptions)) :
        \A i, j \in 1..Len(sel) : i # j => sel[i] # sel[j]}

\* the history entry of a saved profile: the inserted row, the arguments of
\* save_profile and the recommendations generated with it
Saved(row, nm, ag, gd, conds, gl, r) ==
    [row |-> row, name |-> nm, age |-> ag, gender |-> gd,
     conditions |-> conds, goal |-> gl, recs |-> r]

\* button "Save Profile and Generate Recommendations"
CreateProfileSubmit ==
    \E nm \in FormNames :
        /\ op' = "create_submit"
        /\ name' = nm
        /\ df' = <<>>
        /\ selected_id' = 0
        /\ UNCHANGED translator
        /\ IF NameIsBlank(nm)
           THEN /\ shown' = [Blank EXCEPT !.error = NameError]
                /\ conditions' = <<>>
                /\ goal' = ""
                /\ recs' = NoRecs
                /\ language' = ""
                /\ failed' = {}
                /\ UNCHANGED <<users, sqlite_sequence, clock, exception, created>>
           ELSE /\ Cardinality(users) < MaxProfiles
                /\ \E ag \in FormAges, gd \in FormGenders,
                      conds \in FormSelections, gl \in FormGoals,
                      lang \in Languages :
                     \E fl \in FailureSets(lang) :
                        /\ save_profile(nm, ag, gd, conds, gl)
                        /\ conditions' = conds
                        /\ goal' = gl
                        /\ recs' = generate_recommendations(conds, gl)
                        /\ language' = lang
                        /\ failed' = fl
                        /\ shown' = Display(
                               [Blank EXCEPT !.success = SavedMessage(nm)],
                               recs', lang, fl)
                        /\ created' = Append(created,
                               Saved(NewRow(nm, ag, gd, conds, gl),
                                     nm, ag, gd, conds, gl, recs'))

\* a variant that takes the row at position selected_id
FindRow_ByPosition(frame, sid) ==
    IF sid \in 1..Len(frame) THEN <<frame[sid]>> ELSE <<>>

\* df[df['id']==selected_id]
FindRow(frame, sid) == SelectSeq(frame, LAMBDA r : r.id = sid)

\* a variant that always splits
StoredConditions_AlwaysSplit(text) == Split(text, ",")

\* row['conditions'].split(",") if row['conditions'] else []
StoredConditions(text) == IF text # <<>> THEN Split(text, ",") ELSE <<>>

\* menu "View Profiles", button not pressed
ViewProfiles ==
    /\ op' = "view"
    /\ df' = fetch_profiles
    /\ shown' = IF df' = <<>> THEN [Blank EXCEPT !.info = NoProfilesInfo]
                ELSE [Blank EXCEPT !.table = df']
    /\ name' = <<>>
    /\ conditions' = <<>>
    /\ goal' = ""
    /\ recs' = NoRecs
    /\ selected_id' = 0
    /\ language' = ""
    /\ failed' = {}
    /\ UNCHANGED <<users, sqlite_sequence, clock, translator, exception, created>>

\* menu "View Profiles", button "Generate for Selected ID"
GenerateForSelectedId ==
    /\ fetch_profiles # <<>>
    /\ \E sid \in 1..(sqlite_sequence + 1) :
          LET row == FindRow(fetch_profiles, sid)
          IN  /\ op' = "view_generate"
              /\ df' = fetch_profiles
              /\ selected_id' = sid
              /\ name' = <<>>
              /\ IF row = <<>>
                 THEN /\ shown' = [Blank EXCEPT !.table = df',
                                                !.error = NotFoundError]
                      /\ conditions' = <<>>
                      /\ goal' = ""
                      /\ recs' = NoRecs
                      /\ language' = ""
                      /\ failed' = {}
                 ELSE \E lang \in Languages :
                        \E fl \in FailureSets(lang) :
                          /\ conditions' = StoredConditions(row[1].conditions)
                          /\ goal' = row[1].goal
                          /\ recs' = generate_recommendations(conditions', goal')
                          /\ language' = lang
                          /\ failed' = fl
                          /\ shown' = Display([Blank EXCEPT !.table = df'],
                                              recs', lang, fl)
    /\ UNCHANGED <<users, sqlite_sequence, clock, translator, exception, created>>

\* menu "About & Instructions"
About ==
    /\ op' = "about"
    /\ shown' = Blank
    /\ name' = <<>>
    /\ conditions' = <<>>
    /\ goal' = ""
    /\ recs' = NoRecs
    /\ df' = <<>>
    /\ selected_id' = 0
    /\ language' = ""
    /\ failed' = {}
    /\ UNCHANGED <<users, sqlite_sequence, clock, translator, exception, created>>

\* after import and init_db on a new database file
Init ==
    /\ users = {}
    /\ sqlite_sequence = 0
    /\ clock = 1
    /\ translator \in {"Translator", "None"}
    /\ op = "start"
    /\ name = <<>>
    /\ conditions = <<>>
    /\ goal = ""
    /\ recs = NoRecs
    /\ df = <<>>
    /\ selected_id = 0
    /\ language = ""
    /\ failed = {}
    /\ shown = Blank
    /\ exception = ""
    /\ created = <<>>

Next ==
    \/ CreateProfileSubmit
    \/ ViewProfiles
    \/ GenerateForSelectedId
    \/ About

Spec == Init /\ [][Next]_vars

----------------------------------------------------------------------------
(* The engine called directly, on any list of strings and any goal *)

EngineStrings ==
    {Thyroid, SleepApnea, HeartRisk, CardiacHistory,
     Obesity, Diabetes, NoneOption, Flu}

EngineGoals == GoalOptions \cup {"Maintain"}

EngineInputs == SeqsUpTo(EngineStrings, MaxLen)

InitEngine ==
    /\ users = {}
    /\ sqlite_sequence = 0
    /\ clock = 1
    /\ translator \in {"Translator", "None"}
    /\ op = "start"
    /\ name = <<>>
    /\ conditions \in EngineInputs
    /\ goal \in EngineGoals
    /\ recs = NoRecs
    /\ df = <<>>
    /\ selected_id = 0
    /\ language = ""
    /\ failed = {}
    /\ shown = Blank
    /\ exception = ""
    /\ created = <<>>

CallGenerate ==
    /\ op = "start"
    /\ op' = "generate_recommendations"
    /\ recs' = generate_recommendations(conditions, goal)
    /\ UNCHANGED <<users, sqlite_sequence, clock, translator, name, conditions,
                   goal, df, selected_id, language, failed, shown, exception,
                   created>>

NextEngine == CallGenerate

SpecEngine == InitEngine /\ [][NextEngine]_vars

----------------------------------------------------------------------------
(* The database helpers called directly, with any name *)

CallSaveProfile ==
    /\ Cardinality(users) < MaxProfiles
    /\ \E nm \in FormNames, ag \in FormAges, gd \in FormGenders,
          conds \in FormSelections, gl \in FormGoals :
        /\ save_profile(nm, ag, gd, conds, gl)
        /\ op' = "save_profile"
        /\ name' = nm
        /\ df' = <<>>
        /\ created' = IF users' # users
                      THEN Append(created,
                               Saved(NewRow(nm, ag, gd, conds, gl),
                                     nm, ag, gd, conds, gl, NoRecs))
                      ELSE created
    /\ UNCHANGED <<translator, conditions, goal, recs, selected_id, language,
                   failed, shown>>

CallFetchProfiles ==
    /\ op' = "fetch_profiles"
    /\ df' = fetch_profiles
    /\ name' = <<>>
    /\ UNCHANGED <<users, sqlite_sequence, clock, translator, conditions, goal,
                   recs, selected_id, language, failed, shown, exception,
                   created>>

NextStore == CallSaveProfile \/ CallFetchProfiles

SpecStore == Init /\ [][NextStore]_vars

----------------------------------------------------------------------------
(* The rule table the engine is meant to implement *)

RuleTable ==
    {[category |-> "diet",     sentence |-> DietBase,            trigger |-> "base"],
     [category |-> "exercise", sentence |-> ExerciseBase,        trigger |-> "base"],
     [category |-> "sleep",    sentence |-> SleepBase,           trigger |-> "base"],
     [category |-> "general",  sentence |-> GeneralBase,         trigger |-> "base"],
     [category |-> "diet",     sentence |-> DietThyroid,         trigger |-> "Thyroid"],
     [category |-> "exercise", sentence |-> ExerciseThyroid,     trigger |-> "Thyroid"],
     [category |-> "diet",     sentence |-> DietSleepApnea,      trigger |-> "Sleep Apnea"],
     [category |-> "exercise", sentence |-> ExerciseSleepApnea,  trigger |-> "Sleep Apnea"],
     [category |-> "sleep",    sentence |-> SleepSleepApnea,     trigger |-> "Sleep Apnea"],
     [category |-> "diet",     sentence |-> DietHeart,           trigger |-> "Heart"],
     [category |-> "exercise", sentence |-> ExerciseHeart,       trigger |-> "Heart"],
     [category |-> "general",  sentence |-> GeneralHeart,        trigger |-> "Heart"],
     [category |-> "diet",     sentence |-> DietWeightLoss,      trigger |-> "Weight Loss"],
     [category |-> "exercise", sentence |-> ExerciseWeightLoss,  trigger |-> "Weight Loss"],
     [category |-> "sleep",    sentence |-> SleepBetterSleep,    trigger |-> "Better Sleep"],
     [category |-> "diet",     sentence |-> DietBetterSleep,     trigger |-> "Better Sleep"],
     [category |-> "diet",     sentence |-> DietEnergyBoost,     trigger |-> "Energy Boost"],
     [category |-> "exercise", sentence |-> ExerciseEnergyBoost, trigger |-> "Energy Boost"]}

TriggerHolds(trigger, condset, gl) ==
    CASE trigger = "base"        -> TRUE
      [] trigger = "Thyroid"     -> Thyroid \in condset
      [] trigger = "Sleep Apnea" -> SleepApnea \in condset
      [] trigger = "Heart"       -> HeartRisk \in condset \/ CardiacHistory \in condset
      [] OTHER                   -> gl = trigger

TriggerRank(trigger) ==
    CASE trigger = "base"        -> 0
      [] trigger = "Thyroid"     -> 1
      [] trigger = "Sleep Apnea" -> 2
      [] trigger = "Heart"       -> 3
      [] OTHER                   -> 4

RulesOf(cat) == {rule \in RuleTable : rule.category = cat}

RankOf(sentence) ==
    TriggerRank((CHOOSE rule \in RuleTable : rule.sentence = sentence).trigger)

\* a block is the bullet delimiter before every one of its sentences
WellFormedBlock(block) ==
    /\ Len(block) % 2 = 0
    /\ \A i \in 1..Len(block) :
          IF i % 2 = 1 THEN block[i] = Bullet
          ELSE \E rule \in RuleTable : rule.sentence = block[i]

BaselineOnly ==
    [diet     |-> <<Bullet, DietBase>>,
     exercise |-> <<Bullet, ExerciseBase>>,
     sleep    |-> <<Bullet, SleepBase>>,
     general  |-> <<Bullet, GeneralBase>>]

EngineCalled == op = "generate_recommendations"

----------------------------------------------------------------------------
(* Claims *)

\* C1: each of the four blocks generate_recommendations returns holds its
\* category's baseline sentence and exactly the sentences of the rule table
\* whose trigger holds for the condition set and the goal, each once, and no
\* sentence whose trigger does not hold; the empty condition list with goal
\* "Healthy Habits" gives the four baseline sentences only.
C1_BlocksFollowRuleTable ==
    EngineCalled =>
        /\ \A cat \in Categories :
              /\ WellFormedBlock(recs[cat])
              /\ \A rule \in RulesOf(cat) :
                    Count(recs[cat], rule.sentence) =
                        IF TriggerHolds(rule.trigger, Range(conditions), goal)
                        THEN 1 ELSE 0
              /\ Len(recs[cat]) =
                    2 * Cardinality({rule \in RulesOf(cat) :
                            TriggerHolds(rule.trigger, Range(conditions), goal)})
        /\ (conditions = <<>> /\ goal = "Healthy Habits") => recs = BaselineOnly

C1_Witness ==
    /\ EngineCalled
    /\ HeartRisk \in Range(conditions)
    /\ CardiacHistory \in Range(conditions)
    /\ goal = "Weight Loss"
    /\ Count(recs.diet, DietHeart) = 1
    /\ Count(recs.diet, DietWeightLoss) = 1

\* C2: the result of generate_recommendations is the same for every list
\* that holds the same set of conditions (any order, any repetition), and in
\* every block the sentences stand in the order baseline, Thyroid, Sleep
\* Apnea, Heart Risk/Cardiac History, goal.
C2_OrderInsensitive ==
    EngineCalled =>
        /\ \A other \in EngineInputs :
              Range(other) = Range(conditions)
                  => generate_recommendations(other, goal) = recs
        /\ \A cat \in Categories :
              \A i, j \in 1..Len(recs[cat]) :
                  (i % 2 = 0 /\ j % 2 = 0 /\ i < j)
                      => RankOf(recs[cat][i]) < RankOf(recs[cat][j])

C2_Witness ==
    /\ EngineCalled
    /\ conditions = <<SleepApnea, Thyroid>>
    /\ goal = "Energy Boost"
    /\ recs.exercise = <<Bullet, ExerciseBase, Bullet, ExerciseThyroid,
                         Bullet, ExerciseSleepApnea, Bullet, ExerciseEnergyBoost>>

\* C3: condition strings that trigger no rule ("Flu", "Obesity", "Diabetes",
\* "None") are ignored: the result equals the result for the list without
\* them, and four blocks are returned.
TriggeringStrings == {Thyroid, SleepApnea, HeartRisk, CardiacHistory}

C3_UnknownIgnored ==
    EngineCalled =>
        /\ recs = generate_recommendations(
                      SelectSeq(conditions, LAMBDA c : c \in TriggeringStrings),
                      goal)
        /\ \A cat \in Categories : recs[cat] # <<>>
        /\ Range(conditions) \cap TriggeringStrings = {}
              => recs = generate_recommendations(<<>>, goal)

C3_Witness ==
    /\ EngineCalled
    /\ conditions = <<Flu, Obesity>>
    /\ goal = "Healthy Habits"
    /\ recs = BaselineOnly

\* C4: a Create Profile submit whose name is empty or only whitespace shows
\* the error, leaves table users as it was and generates no recommendations;
\* a submit with any other name inserts exactly one new row.
C4_BlankNameRejected ==
    [][op' = "create_submit" =>
          IF Strip(name') = <<>>
          THEN /\ users' = users
               /\ shown'.error = NameError
               /\ recs' = NoRecs
               /\ \A cat \in Categories : shown'[cat] = <<>>
          ELSE /\ users \subseteq users'
               /\ Cardinality(users') = Cardinality(users) + 1
               /\ \A row \in users' \ users : row.name = name'
               /\ shown'.error = <<>>]_vars

C4_Witness ==
    /\ op = "create_submit"
    /\ name = <<" ", " ">>
    /\ shown.error = NameError
    /\ Cardinality(users) = 1

\* C5 as claimed: save_profile called with an empty name raises a
\* ValidationError and inserts nothing.
C5_SaveRejectsEmptyName ==
    [][(op' = "save_profile" /\ name' = <<>>) =>
          (users' = users /\ exception' = "ValidationError")]_vars

\* C5 as amended: save_profile does not look at the name: every call, also
\* one with an empty name, returns normally and inserts exactly one new row
\* carrying that name.
C5_SaveInsertsAnyName ==
    [][op' = "save_profile" =>
          /\ exception' = ""
          /\ users \subseteq users'
          /\ Cardinality(users') = Cardinality(users) + 1
          /\ \A row \in users' \ users : row.name = name']_vars

C5_Witness ==
    /\ op = "save_profile"
    /\ name = <<>>
    /\ \E row \in users : row.name = <<>> /\ row.id = sqlite_sequence

\* the history entry of the profile with this id
HistoryOf(id) == SelectSeq(created, LAMBDA h : h.row.id = id)

\* C6: every saved profile, read back by its id with its stored conditions
\* text split again, gives the set of conditions it was saved with; an empty
\* selection is read back as the empty list.  For the first profile of a
\* new table this is checked for every selection the multiselect can return.
C6_ConditionsRoundTrip ==
    /\ \A i \in 1..Len(created) :
          LET found == FindRow(fetch_profiles, created[i].row.id)
          IN  /\ Len(found) = 1
              /\ Range(StoredConditions(found[1].conditions))
                     = Range(created[i].conditions)
              /\ created[i].conditions = <<>>
                     => StoredConditions(found[1].conditions) = <<>>
    /\ (op = "view_generate" /\ shown.error = <<>>) =>
          /\ Len(HistoryOf(selected_id)) = 1
          /\ Range(conditions) = Range(HistoryOf(selected_id)[1].conditions)
    /\ users = {} =>
          \A sel \in AllSelections :
              LET text == NewRow(<<"A">>, 30, "Other", sel, "Weight Loss").conditions
              IN  /\ Range(StoredConditions(text)) = Range(sel)
                  /\ Len(StoredConditions(text)) = Len(sel)

C6_Witness ==
    /\ op = "view_generate"
    /\ shown.error = <<>>
    /\ conditions = <<HeartRisk, Obesity, Diabetes, NoneOption>>
    /\ \E i \in 1..Len(created) : created[i].conditions = <<>>

\* C7: fetch_profiles returns every profile saved so far exactly once, with
\* the fields it was saved with, latest first (strictly descending id); ids
\* are distinct and grow in creation order; nothing saved is changed or
\* removed; the result is empty when nothing was saved.
C7_ListAll ==
    LET listing == fetch_profiles
        n == Len(created)
    IN  /\ Len(listing) = n
        /\ Cardinality(users) = n
        /\ \A i \in 1..n : listing[i] = created[n + 1 - i].row
        /\ \A i \in 1..n :
              LET h == created[n + 1 - i]
              IN  /\ listing[i].name = h.name
                  /\ listing[i].age = h.age
                  /\ listing[i].gender = h.gender
                  /\ listing[i].goal = h.goal
                  /\ Split(listing[i].conditions, ",") =
                         (IF h.conditions = <<>> THEN <<<<>>>> ELSE h.conditions)
        /\ \A i, j \in 1..n : i < j => listing[i].id > listing[j].id
        /\ \A i, j \in 1..n : i < j => created[i].row.id < created[j].row.id
        /\ (n = 0 => listing = <<>>)
        /\ (op \in {"view", "view_generate"} => df = listing)

C7_Witness ==
    /\ op = "view"
    /\ Len(df) >= 2
    /\ df[1].id = 2
    /\ df[2].id = 1
    /\ df[1].goal # df[2].goal

\* C8: when Hindi is chosen and translation fails or googletrans is absent,
\* the text shown for a category is its English block followed by the fixed
\* note of that translate_text definition; all four blocks are shown and no
\* error appears.
FallbackSuffix ==
    IF translator = "None" THEN NotInstalledSuffix ELSE UnavailableSuffix

C9_LookupById ==
    /\ op = "view_generate" =>
          /\ users # {}
          /\ shown.table # <<>>
          /\ IF \E row \in users : row.id = selected_id
             THEN LET row == CHOOSE r \in users : r.id = selected_id
                      h == HistoryOf(selected_id)
                  IN  /\ shown.error = <<>>
                      /\ goal = row.goal
                      /\ conditions = StoredConditions(row.conditions)
                      /\ recs = generate_recommendations(conditions, goal)
                      /\ Len(h) = 1
                      /\ goal = h[1].row.goal
                      /\ Range(conditions) = Range(h[1].conditions)
                      /\ language = "English"
                            => \A cat \in Categories : shown[cat] = recs[cat]
             ELSE /\ shown.error = NotFoundError
                  /\ recs = NoRecs
                  /\ \A cat \in Categories : shown[cat] = <<>>
    /\ (op = "view" /\ users = {}) =>
          /\ shown.info = NoProfilesInfo
          /\ shown.table = <<>>
          /\ recs = NoRecs

C9_Witness ==
    /\ op = "view_generate"
    /\ Cardinality(users) >= 2
    /\ selected_id = 1
    /\ shown.error = <<>>
    /\ \E r1, r2 \in users :
          /\ r1.id = 1
          /\ r2.id = 2
          /\ r1.goal # r2.goal
          /\ goal = r1.goal

\* C10: the recommendations View Profiles generates for a saved profile's
\* id equal, in all four blocks, those generated when it was created, in
\* whatever order its conditions were selected and whatever was saved after.
\* For the first profile of a new table this is checked for every selection
\* the multiselect can return and every goal of the selectbox.
C10_SameRecsLater ==
    /\ \A i \in 1..Len(created) :
          \A row \in users :
              row.id = created[i].row.id =>
                  generate_recommendations(StoredConditions(row.conditions),
                                           row.goal) = created[i].recs
    /\ (op = "view_generate" /\ shown.error = <<>>) =>
          /\ Len(HistoryOf(selected_id)) = 1
          /\ recs = HistoryOf(selected_id)[1].recs
    /\ users = {} =>
          \A sel \in AllSelections, gl \in GoalOptions :
              generate_recommendations(
                  StoredConditions(NewRow(<<"A">>, 30, "Other", sel, gl).conditions),
                  gl) = generate_recommendations(sel, gl)

C10_Witness ==
    /\ op = "view_generate"
    /\ shown.error = <<>>
    /\ selected_id = 1
    /\ Len(created) >= 2
    /\ created[1].conditions = <<SleepApnea, Thyroid>>
    /\ recs = created[1].recs
    /\ recs.sleep = <<Bullet, SleepBase, Bullet, SleepSleepApnea>>

====
